---- MODULE Spec2Model ----
(***************************************************************************)
(* Model of the point-of-sale engine of src/routes/pos/index.tsx           *)
(* (MoroccanPOSSystem): the cart handlers, cartTotals and processPayment.  *)
(*                                                                         *)
(* Units.  Amounts that the code rounds to currency precision              *)
(* (totalRounded, amounts paid, shift buckets, customer credit) are        *)
(* integers in centimes (1/100 MAD).  Unrounded amounts (subtotal, VAT     *)
(* per band, total, arrondi) are integers in 1/10000 MAD; this is exact    *)
(* for the catalogue prices (multiples of 0.10 MAD), the VAT rates         *)
(* (10, 14, 20 %) and discounts that are multiples of 5 %.  This is the   *)
(* decimal value of every amount.  The JavaScript numbers of cartTotals    *)
(* are IEEE 754 doubles: cartTotalsFloat computes them bit for bit, and    *)
(* SpecFloat settles with the totalRounded it gives; the other            *)
(* specifications compute the amounts in decimal.                          *)
(*                                                                         *)
(* Every event handler runs to completion against the latest render, so    *)
(* each handler is one action; the state updates a handler queues are      *)
(* applied together (React batches them into one render).                  *)
(*                                                                         *)
(* paymentMethod, currentCustomer and amountPaid are written by setters    *)
(* that only store their argument, and read by processPayment only: they   *)
(* are the parameters of the pay click, drawn from Settings, and not       *)
(* variables of the model (so the setAmountPaid('') that follows a         *)
(* settlement is not modelled).                                            *)
(*                                                                         *)
(* Specifications.  Spec: the register from the first render.  SpecBulk:   *)
(* the same from a cart of BulkQty units.  SpecDouble: Spec with two calls *)
(* of processPayment on one render.  SpecTickets: settlements with the     *)
(* ticket block of the receipt, after a first settlement.  SpecCart: the   *)
(* cart handlers with applyDiscount and the barcode path, their arguments  *)
(* on record, up to the first settlement.  SpecScan: the same after a      *)
(* first settlement has lowered a stock.  SpecTotals: cartTotals on carts  *)
(* with one product of each VAT rate.  SpecFloat: settlements of carts of  *)
(* products '1' and '4' with the totals computed in doubles.  SpecShifts:  *)
(* the ShiftManager dialog.  SpecStorage: the useLocalStorage hook on a    *)
(* SelectionState | null value.  SpecSelection: DataTableBulkActions with  *)
(* persistSelection, its effects and its clock.                            *)
(*                                                                         *)
(* ShiftManager, useLocalStorage and DataTableBulkActions keep their own   *)
(* state (shifts; storedValue and localStorage; rowSelection, pending and  *)
(* clock); the register never touches it.                                  *)
(***************************************************************************)
EXTENDS Integers, Sequences, FiniteSets, TLC

(***************************************************************************)
(* Bounds of the model.                                                    *)
(***************************************************************************)
\* Stock level of every product at the start (45 and 120 in the source,
\* scaled down so that a cart line crosses it within a few addToCart calls).
MaxStock == 1
\* addToCart is not offered on a line that already holds MaxQty units.
MaxQty == MaxStock + 1
\* The model follows the register up to its MaxSales-th settlement.
MaxSales == 1
\* Quantity of the line of BulkProduct in the bulk starting cart.
BulkQty == 1479

\* ShiftManager is followed until it lists MaxShifts shifts.
MaxShifts == 7

\* The clock of DataTableBulkActions is followed up to MaxTime hours.
MaxTime == 36

(***************************************************************************)
(* Program data.                                                           *)
(***************************************************************************)
\* products (ids '1' and '2' of the catalogue)
ProductIds == {1, 2}

\* Product.price, in centimes
Price(p) == CASE p = 1 -> 3250 [] p = 2 -> 890 [] p = 4 -> 1150

\* Product.tva_rate, in percent
TvaPct(p) == CASE p = 1 -> 20 [] p = 2 -> 14 [] p = 4 -> 10

\* the products of the carts whose totals are checked: one per VAT rate
TotalsProducts == {1, 2, 4}

\* products state at the first render: the stock of every product
InitStock == [p \in ProductIds |-> MaxStock]

\* customers (ids '1' and '2'): credit_limit and the initial credit_used
CustomerIds == {1, 2}
NoCustomer == 0
credit_limit(c) == CASE c = 1 -> 5000000 [] c = 2 -> 2000000
InitCreditUsed == [c \in CustomerIds |-> IF c = 1 THEN 1200000 ELSE 500000]

\* type PaymentMethod, and the value 'credit' that processPayment tests for
PaymentMethod == {"cash", "credit_card", "cheque", "mobile_money", "bank_transfer"}
Methods == PaymentMethod \cup {"credit"}

\* activeShift.opening_balance, in centimes
OpeningBalance == 500000

\* interface Shift: the fields that hold the sales of one payment method
LedgerBuckets == {"cash_sales", "card_sales", "cheque_sales"}

\* the field of Shift that the setActiveShift updater feeds for a method;
\* "" where the updater has no term for the method
BucketOf(method) ==
    CASE method = "cash" -> "cash_sales"
      [] method = "credit_card" -> "card_sales"
      [] method = "cheque" -> "cheque_sales"
      [] OTHER -> ""

\* Product.barcode
Barcode(p) == CASE p = 1 -> "7612100012345" [] p = 2 -> "6111111111111"

\* Inputs of the handlers.
Deltas == {-1, 1}
\* delta of updateQuantity(productId: string, delta: number): the values the
\* buttons pass, and one that no button passes
CartDeltas == {-2, -1, 1}
\* discount of applyDiscount(productId: string, discount: number): two values
\* of the menu (0 and 20) and two outside it
Percents == {-5, 0, 20, 150}
\* discounts of the carts whose totals are checked (two values of the menu)
TotalsPercents == {0, 5}
\* text of the barcode field: the barcodes of the products and an unknown one
Barcodes == {Barcode(1), Barcode(2), "0000000000000"}
BulkProduct == 2
\* text of the amount field: <<>> is '', <<n>> the decimal text of n centimes
Fifty == <<5000>>
Hundred == <<10000>>
\* values of new Date() and of Math.floor(Math.random() * 10000)
Dates == { [year |-> 2024, month |-> 0, date |-> 5],
           [year |-> 2026, month |-> 10, date |-> 14] }
Draws == {0, 42, 9999}

VARIABLES
    cart,             \* CartItem[]: <<[id, quantity, discount, stock]>>
    products,         \* Product[]: the stock of each product
    customers,        \* Customer[]: the credit_used of each customer
    currentReceipt,   \* MoroccanReceipt, or NoReceipt for null; the ticket
                      \* block is followed in SpecTickets only
    activeShift,
    isProcessing,
    toast,            \* toast shown by the last handler, [title, value]
    op,               \* the last handler call: <<name>> or <<name, arguments>>;
                      \* for processPayment <<name, method, customer, text>>
    nSales,           \* number of settlements committed since the initial state
    settled,          \* per method, the sum of totalRounded of its settlements
    shifts,           \* ShiftManager: Shift[], <<[id, status, start_time]>>
    storedValue,      \* useLocalStorage: the state of the hook
    localStorage,     \* window.localStorage: the item under the key of the
                      \* hook (its JSON text), or NoItem
    rowSelection,     \* the table of DataTableBulkActions: ids of the selected rows
    pending,          \* DataTableBulkActions: what has changed since the effects
                      \* last ran ("mount", "selection", "stored")
    clock             \* Date.now(), in hours

\* the state of MoroccanPOSSystem but op
register == <<cart, products, customers, currentReceipt, activeShift, isProcessing,
              toast, nSales, settled>>

\* the state of the other components
components == <<shifts, storedValue, localStorage, rowSelection, pending, clock>>

vars == <<cart, products, customers, currentReceipt, activeShift, isProcessing,
          toast, op, nSales, settled,
          shifts, storedValue, localStorage, rowSelection, pending, clock>>

NoToast == [title |-> "", value |-> 0]
NoReceipt == <<>>

\* the register is followed up to its MaxSales-th settlement
Open == nSales < MaxSales

(***************************************************************************)
(* cartTotals (useMemo over cart)                                          *)
(***************************************************************************)
\* item.product.price * item.quantity, in 1/10000 MAD
ItemTotal(item) == Price(item.id) * item.quantity * 100

\* itemTotal * (item.discount / 100); itemTotal is a multiple of 100 here
DiscountAmount(item) == (ItemTotal(item) \div 100) * item.discount

\* netAmount = itemTotal - discountAmount
NetAmount(item) == ItemTotal(item) - DiscountAmount(item)

\* tvaAmount = netAmount * item.product.tva_rate
TvaAmount(item) == (NetAmount(item) * TvaPct(item.id)) \div 100

RECURSIVE SumNet(_)
SumNet(items) ==
    IF items = <<>> THEN 0
    ELSE SumNet(SubSeq(items, 1, Len(items) - 1)) + NetAmount(items[Len(items)])

RECURSIVE SumTva(_, _)
SumTva(items, pct) ==
    IF items = <<>> THEN 0
    ELSE SumTva(SubSeq(items, 1, Len(items) - 1), pct)
         + (IF TvaPct(items[Len(items)].id) = pct THEN TvaAmount(items[Len(items)]) ELSE 0)

RECURSIVE SumQty(_)
SumQty(items) ==
    IF items = <<>> THEN 0
    ELSE SumQty(SubSeq(items, 1, Len(items) - 1)) + items[Len(items)].quantity

\* Math.round(total * 100) / 100, in centimes
RoundCents(total) == (total + 50) \div 100

\* cartTotals whose tvaTotal leaves out the 14 % band
cartTotalsWithout14(items) ==
    LET subtotal == SumNet(items)
        tva_10 == SumTva(items, 10)
        tva_14 == SumTva(items, 14)
        tva_20 == SumTva(items, 20)
        tvaTotal == tva_10 + tva_20
        total == subtotal + tvaTotal
        totalRounded == RoundCents(total)
    IN [subtotal |-> subtotal,
        tva_10 |-> tva_10, tva_14 |-> tva_14, tva_20 |-> tva_20,
        tvaTotal |-> tvaTotal,
        total |-> total,
        totalRounded |-> totalRounded,
        arrondi |-> totalRounded * 100 - total,
        itemCount |-> SumQty(items)]

cartTotals(items) ==
    LET subtotal == SumNet(items)
        tva_10 == SumTva(items, 10)
        tva_14 == SumTva(items, 14)
        tva_20 == SumTva(items, 20)
        tvaTotal == tva_10 + tva_14 + tva_20
        total == subtotal + tvaTotal
        totalRounded == RoundCents(total)
    IN [subtotal |-> subtotal,
        tva_10 |-> tva_10, tva_14 |-> tva_14, tva_20 |-> tva_20,
        tvaTotal |-> tvaTotal,
        total |-> total,
        totalRounded |-> totalRounded,
        arrondi |-> totalRounded * 100 - total,
        itemCount |-> SumQty(items)]

(***************************************************************************)
(* JavaScript numbers in cartTotals.  A number is an IEEE 754 double; the  *)
(* amounts are not negative, so a number is [m, e], standing for           *)
(* m * 2^e, with a natural m of at most MantissaBits bits (one more when a *)
(* rounding carries into 2^53).  m is the sequence of its digits in base   *)
(* LimbBase, the lowest first, with no zero at the high end; every result  *)
(* is rounded to the nearest such number, ties to the even m.              *)
(***************************************************************************)
LimbBits == 14
LimbBase == 2^LimbBits
MantissaBits == 53

\* the element of a set of one element; {F(v) : v \in {exp}} has exp
\* evaluated once, however often F uses v
The(S) == CHOOSE x \in S : TRUE

Limb(a, i) == IF i <= Len(a) THEN a[i] ELSE 0

RECURSIVE Trim(_)
Trim(a) ==
    IF a # <<>> /\ a[Len(a)] = 0 THEN Trim(SubSeq(a, 1, Len(a) - 1)) ELSE a

RECURSIVE AddFrom(_, _, _, _)
AddFrom(a, b, i, carry) ==
    IF i > Len(a) /\ i > Len(b) /\ carry = 0 THEN <<>>
    ELSE The({<<s % LimbBase>> \o AddFrom(a, b, i + 1, s \div LimbBase) :
                 s \in {Limb(a, i) + Limb(b, i) + carry}})

\* a + b
BigAdd(a, b) == AddFrom(a, b, 1, 0)

RECURSIVE SubFrom(_, _, _, _)
SubFrom(a, b, i, borrow) ==
    IF i > Len(a) THEN <<>>
    ELSE The({IF d < 0 THEN <<d + LimbBase>> \o SubFrom(a, b, i + 1, 1)
                       ELSE <<d>> \o SubFrom(a, b, i + 1, 0) :
                 d \in {a[i] - Limb(b, i) - borrow}})

\* a - b, for a >= b
BigSub(a, b) == Trim(SubFrom(a, b, 1, 0))

\* the sum of a[j] * b[k + 1 - j] over j >= i
RECURSIVE Column(_, _, _, _)
Column(a, b, k, i) ==
    IF i > Len(a) THEN 0
    ELSE (IF k + 1 - i >= 1 /\ k + 1 - i <= Len(b) THEN a[i] * b[k + 1 - i] ELSE 0)
           + Column(a, b, k, i + 1)

RECURSIVE MulFrom(_, _, _, _)
MulFrom(a, b, k, carry) ==
    IF k > Len(a) + Len(b) /\ carry = 0 THEN <<>>
    ELSE The({<<s % LimbBase>> \o MulFrom(a, b, k + 1, s \div LimbBase) :
                 s \in {Column(a, b, k, 1) + carry}})

\* a * b
BigMul(a, b) == Trim(MulFrom(a, b, 1, 0))

RECURSIVE CmpFrom(_, _, _)
CmpFrom(a, b, i) ==
    IF i = 0 THEN 0
    ELSE IF a[i] > b[i] THEN 1
    ELSE IF a[i] < b[i] THEN -1
    ELSE CmpFrom(a, b, i - 1)

\* 1, 0 or -1 as a is above, equal to or below b
BigCmp(a, b) ==
    IF Len(a) > Len(b) THEN 1
    ELSE IF Len(a) < Len(b) THEN -1
    ELSE CmpFrom(a, b, Len(a))

RECURSIVE BitsOf(_)
BitsOf(n) == IF n = 0 THEN 0 ELSE 1 + BitsOf(n \div 2)

\* the number of binary digits of a
BigBits(a) == IF a = <<>> THEN 0 ELSE (Len(a) - 1) * LimbBits + BitsOf(a[Len(a)])

\* a * 2^k
BigShl(a, k) ==
    IF a = <<>> THEN <<>>
    ELSE [i \in 1..(k \div LimbBits) |-> 0] \o BigMul(a, <<2^(k % LimbBits)>>)

\* quotient digits 1..i and remainder of (rem, a[i], ..., a[1]) by d
RECURSIVE DivFrom(_, _, _, _)
DivFrom(a, d, i, rem) ==
    IF i = 0 THEN [q |-> <<>>, r |-> rem]
    ELSE The({[q |-> Append(lower.q, cur \div d), r |-> lower.r] :
                 cur \in {rem * LimbBase + a[i]},
                 lower \in {DivFrom(a, d, i - 1, (rem * LimbBase + a[i]) % d)}})

\* quotient and remainder of a by d, for 0 < d < LimbBase
BigDiv(a, d) ==
    The({[q |-> Trim(x.q), r |-> x.r] : x \in {DivFrom(a, d, Len(a), 0)}})

\* the integer part of a / 2^k
BigShr(a, k) ==
    IF k \div LimbBits >= Len(a) THEN <<>>
    ELSE BigDiv(SubSeq(a, k \div LimbBits + 1, Len(a)), 2^(k % LimbBits)).q

RECURSIVE BigToInt(_)
BigToInt(a) == IF a = <<>> THEN 0 ELSE a[1] + LimbBase * BigToInt(Tail(a))

RECURSIVE BigFromInt(_)
BigFromInt(n) ==
    IF n = 0 THEN <<>> ELSE <<n % LimbBase>> \o BigFromInt(n \div LimbBase)

\* n * 2^e with the digits of n below its highest MantissaBits rounded
\* off, a half going to the even neighbour
RoundOff(n, e) ==
    The({[m |-> IF \/ BigCmp(BigSub(n, BigShl(q, s)), BigShl(<<1>>, s - 1)) > 0
                   \/ /\ BigCmp(BigSub(n, BigShl(q, s)), BigShl(<<1>>, s - 1)) = 0
                      /\ q[1] % 2 = 1
                THEN BigAdd(q, <<1>>) ELSE q,
          e |-> e + s] :
            s \in {BigBits(n) - MantissaBits},
            q \in {BigShr(n, BigBits(n) - MantissaBits)}})

\* the double nearest to n * 2^e
RoundToFloat(n, e) ==
    The({IF BigBits(v) <= MantissaBits THEN [m |-> v, e |-> e] ELSE RoundOff(v, e) :
            v \in {n}})

\* an integer as a number
Float(n) == [m |-> BigFromInt(n), e |-> 0]

\* x * y
FloatMul(x, y) ==
    The({RoundToFloat(BigMul(a.m, b.m), a.e + b.e) : a \in {x}, b \in {y}})

\* x + y
FloatAdd(x, y) ==
    The({LET e == IF a.e < b.e THEN a.e ELSE b.e
         IN RoundToFloat(BigAdd(BigShl(a.m, a.e - e), BigShl(b.m, b.e - e)), e) :
            a \in {x}, b \in {y}})

\* x - y, for x >= y
FloatSub(x, y) ==
    The({LET e == IF a.e < b.e THEN a.e ELSE b.e
         IN RoundToFloat(BigSub(BigShl(a.m, a.e - e), BigShl(b.m, b.e - e)), e) :
            a \in {x}, b \in {y}})

\* x / d for an integer d with 0 < d < LimbBase: the quotient is taken to
\* 64 binary digits beyond x.m, with one more digit that tells whether
\* the division left a remainder, and then rounded
FloatDiv(x, d) ==
    The({IF a.m = <<>> THEN a
         ELSE The({RoundToFloat(BigAdd(BigShl(dv.q, 1),
                                       IF dv.r = 0 THEN <<>> ELSE <<1>>),
                                a.e - 65) :
                      dv \in {BigDiv(BigShl(a.m, 64), d)}}) :
            a \in {x}})

\* Math.round(x): the integer part of x + 1/2
MathRound(x) ==
    The({IF a.e >= 0 THEN BigToInt(BigShl(a.m, a.e))
         ELSE BigToInt(BigShr(BigAdd(a.m, BigShl(<<1>>, (-a.e) - 1)), -a.e)) :
            a \in {x}})

\* the literals price and tva_rate of a product: the doubles nearest to
\* the decimal numerals
FloatPrice(p) == FloatDiv(Float(Price(p)), 100)
FloatRate(p) == FloatDiv(Float(TvaPct(p)), 100)

\* itemTotal - itemTotal * (item.discount / 100)
FloatNet(item) ==
    The({FloatSub(itemTotal, FloatMul(itemTotal, FloatDiv(Float(item.discount), 100))) :
            itemTotal \in {FloatMul(FloatPrice(item.id), Float(item.quantity))}})

\* netAmount * item.product.tva_rate
FloatTva(item) == FloatMul(FloatNet(item), FloatRate(item.id))

\* cart.reduce((sum, item) => sum + (itemTotal - discountAmount), 0)
RECURSIVE FloatSumNet(_)
FloatSumNet(items) ==
    IF items = <<>> THEN Float(0)
    ELSE FloatAdd(FloatSumNet(SubSeq(items, 1, Len(items) - 1)),
                   FloatNet(items[Len(items)]))

\* tvaByRate.tva_<pct> after the forEach
RECURSIVE FloatSumTva(_, _)
FloatSumTva(items, pct) ==
    IF items = <<>> THEN Float(0)
    ELSE IF TvaPct(items[Len(items)].id) = pct
    THEN FloatAdd(FloatSumTva(SubSeq(items, 1, Len(items) - 1), pct),
                   FloatTva(items[Len(items)]))
    ELSE FloatSumTva(SubSeq(items, 1, Len(items) - 1), pct)

\* cartTotals as the code computes it: total as a double, and totalRounded,
\* Math.round(total * 100) / 100, in centimes
cartTotalsFloat(items) ==
    The({[subtotal |-> subtotal,
          tvaTotal |-> tvaTotal,
          total |-> FloatAdd(subtotal, tvaTotal),
          totalRounded |-> MathRound(FloatMul(FloatAdd(subtotal, tvaTotal), Float(100)))] :
            subtotal \in {FloatSumNet(items)},
            tvaTotal \in {FloatAdd(FloatAdd(FloatAdd(Float(0), FloatSumTva(items, 10)),
                                            FloatSumTva(items, 14)),
                                   FloatSumTva(items, 20))}})

(***************************************************************************)
(* Cart handlers                                                           *)
(***************************************************************************)
HasLine(items, p) == \E i \in DOMAIN items : items[i].id = p
LineOf(items, p) == items[CHOOSE i \in DOMAIN items : items[i].id = p]

\* AddLine that never looks for an existing line
AddLineAlwaysAppend(prev, p, st) ==
    Append(prev, [id |-> p, quantity |-> 1, discount |-> 0, stock |-> st])

\* AddLine that puts a new line first
AddLineFirst(prev, p, st) ==
    IF HasLine(prev, p)
    THEN [i \in DOMAIN prev |->
            IF prev[i].id = p
            THEN [prev[i] EXCEPT !.quantity = prev[i].quantity + 1]
            ELSE prev[i]]
    ELSE <<[id |-> p, quantity |-> 1, discount |-> 0, stock |-> st]>> \o prev

\* the setCart updater of addToCart; st is product.stock of the product
\* object passed in
AddLine(prev, p, st) ==
    IF HasLine(prev, p)
    THEN [i \in DOMAIN prev |->
            IF prev[i].id = p
            THEN [prev[i] EXCEPT !.quantity = prev[i].quantity + 1]
            ELSE prev[i]]
    ELSE Append(prev, [id |-> p, quantity |-> 1, discount |-> 0, stock |-> st])

\* addToCart is offered while the model's bounds allow the result
CanAdd(p) == HasLine(cart, p) => LineOf(cart, p).quantity < MaxQty

Frame == UNCHANGED <<products, customers, currentReceipt, activeShift, isProcessing,
                     nSales, settled, components>>

\* click on a product card: addToCart(product) with the product of the
\* current render
addToCartBody(p) ==
    /\ Open
    /\ CanAdd(p)
    /\ cart' = AddLine(cart, p, products[p])
    /\ toast' = NoToast
    /\ Frame

addToCart(p) == addToCartBody(p) /\ op' = <<"addToCart">>

\* the same, with the argument on record
addToCartCall(p) == addToCartBody(p) /\ op' = <<"addToCart", p>>

\* Math.max(1, item.quantity + delta)
NewQuantity(item, delta) == IF item.quantity + delta > 1 THEN item.quantity + delta ELSE 1

updateQuantityBody(productId, delta) ==
    /\ Open
    /\ cart' = [i \in DOMAIN cart |->
                  IF cart[i].id = productId
                  THEN IF NewQuantity(cart[i], delta) > cart[i].stock
                       THEN cart[i]
                       ELSE [cart[i] EXCEPT !.quantity = NewQuantity(cart[i], delta)]
                  ELSE cart[i]]
    /\ toast' = IF /\ HasLine(cart, productId)
                   /\ NewQuantity(LineOf(cart, productId), delta) > LineOf(cart, productId).stock
                THEN [title |-> "Stock insuffisant", value |-> LineOf(cart, productId).stock]
                ELSE NoToast
    /\ Frame

updateQuantity(productId, delta) ==
    updateQuantityBody(productId, delta) /\ op' = <<"updateQuantity">>

\* the same, with the arguments on record
updateQuantityCall(productId, delta) ==
    updateQuantityBody(productId, delta) /\ op' = <<"updateQuantity", productId, delta>>

RECURSIVE Without(_, _)
Without(items, p) ==
    IF items = <<>> THEN <<>>
    ELSE IF items[Len(items)].id = p
         THEN Without(SubSeq(items, 1, Len(items) - 1), p)
         ELSE Append(Without(SubSeq(items, 1, Len(items) - 1), p), items[Len(items)])

removeFromCartBody(productId) ==
    /\ Open
    /\ cart' = Without(cart, productId)
    /\ toast' = NoToast
    /\ Frame

removeFromCart(productId) ==
    removeFromCartBody(productId) /\ op' = <<"removeFromCart">>

\* the same, with the argument on record
removeFromCartCall(productId) ==
    removeFromCartBody(productId) /\ op' = <<"removeFromCart", productId>>

\* ClampDiscount without the upper bound
ClampDiscountBelowOnly(discount) == IF discount > 0 THEN discount ELSE 0

\* Math.min(100, Math.max(0, discount))
ClampDiscount(discount) ==
    LET atLeast0 == IF discount > 0 THEN discount ELSE 0
    IN IF atLeast0 < 100 THEN atLeast0 ELSE 100

\* SetDiscount that gives the discount to every line
SetDiscountEveryLine(prev, productId, discount) ==
    [i \in DOMAIN prev |-> [prev[i] EXCEPT !.discount = ClampDiscount(discount)]]

\* the setCart updater of applyDiscount
SetDiscount(prev, productId, discount) ==
    [i \in DOMAIN prev |->
       IF prev[i].id = productId
       THEN [prev[i] EXCEPT !.discount = ClampDiscount(discount)]
       ELSE prev[i]]

\* an entry of the discount menu of a line
applyDiscount(productId, discount) ==
    /\ Open
    /\ cart' = SetDiscount(cart, productId, discount)
    /\ toast' = NoToast
    /\ op' = <<"applyDiscount", productId, discount>>
    /\ Frame

\* products.find(p => p.barcode === barcode), NoProduct for undefined
NoProduct == 0
FindByBarcode(barcode) ==
    IF \E p \in ProductIds : Barcode(p) = barcode
    THEN CHOOSE p \in ProductIds : Barcode(p) = barcode
    ELSE NoProduct

\* Enter in the barcode field.  The keydown listener is registered by an
\* effect with no dependencies, so it calls the scanProduct of the first
\* render, whose products are those of the first render (InitStock):
\* the product object handed to addToCart carries the stock of that render.
scanProduct(barcode) ==
    LET p == FindByBarcode(barcode) IN
    /\ Open
    /\ IF p # NoProduct
       THEN /\ CanAdd(p)
            /\ cart' = AddLine(cart, p, InitStock[p])
            /\ toast' = [title |-> "Produit scanne", value |-> 0]
       ELSE /\ cart' = cart
            /\ toast' = [title |-> "Produit non trouve", value |-> 0]
    /\ op' = <<"scanProduct", barcode>>
    /\ Frame

\* the "Vider" button: setCart([]), disabled on an empty cart
clearCart ==
    /\ Open
    /\ cart # <<>>
    /\ cart' = <<>>
    /\ toast' = NoToast
    /\ op' = <<"clearCart">>
    /\ Frame

(***************************************************************************)
(* processPayment                                                          *)
(***************************************************************************)
\* const paid = parseFloat(amountPaid) || 0
ParsePaid(text) == IF text = <<>> THEN 0 ELSE text[1]

\* const change = paid - cartTotals.totalRounded
Change(text, items) == ParsePaid(text) - cartTotals(items).totalRounded

\* paiement.rendu: Math.max(0, change)
Rendu(method, text, items) == IF Change(text, items) > 0 THEN Change(text, items) ELSE 0

\* Insufficient with the comparison turned into <=
InsufficientOrEqual(method, text, items) ==
    method = "cash" /\ ParsePaid(text) <= cartTotals(items).totalRounded

\* the guard of the second early return:
\* paymentMethod === 'cash' && paid < cartTotals.totalRounded
Insufficient(method, text, items) ==
    method = "cash" /\ ParsePaid(text) < cartTotals(items).totalRounded

\* amount * pct / 100 without passing through amount * pct
MulPct(amount, pct) == (amount \div 100) * pct + ((amount % 100) * pct) \div 100

\* Article whose montant_ht leaves the discount of the line out
ArticleUndiscounted(item) ==
    [id |-> item.id,
     quantite |-> item.quantity,
     prix_unitaire |-> Price(item.id),
     tva |-> TvaPct(item.id),
     montant_ht |-> ItemTotal(item),
     montant_tva |-> MulPct(MulPct(ItemTotal(item), 100 - item.discount), TvaPct(item.id)),
     montant_ttc |-> MulPct(MulPct(ItemTotal(item), 100 - item.discount),
                            100 + TvaPct(item.id))]

\* articles: cart.map(...); the three amounts are computed from price,
\* quantity, discount and rate, each by its own product:
\* (price * quantity) * (1 - discount / 100) [* tva_rate | * (1 + tva_rate)]
Article(item) ==
    [id |-> item.id,
     quantite |-> item.quantity,
     prix_unitaire |-> Price(item.id),
     tva |-> TvaPct(item.id),
     montant_ht |-> MulPct(ItemTotal(item), 100 - item.discount),
     montant_tva |-> MulPct(MulPct(ItemTotal(item), 100 - item.discount), TvaPct(item.id)),
     montant_ttc |-> MulPct(MulPct(ItemTotal(item), 100 - item.discount),
                            100 + TvaPct(item.id))]

Receipt(method, customer, text, items) ==
    LET t == cartTotals(items) IN
    [client |-> customer,
     articles |-> [i \in DOMAIN items |-> Article(items[i])],
     total |-> [montant_ht |-> t.subtotal,
                montant_tva_10 |-> t.tva_10,
                montant_tva_14 |-> t.tva_14,
                montant_tva_20 |-> t.tva_20,
                montant_ttc |-> t.total,
                arrondi |-> t.arrondi,
                net_a_payer |-> t.totalRounded],
     paiement |-> [mode |-> method,
                   recu |-> ParsePaid(text),
                   rendu |-> Rendu(method, text, items)]]

\* the characters of a decimal numeral
DigitChars == <<"0", "1", "2", "3", "4", "5", "6", "7", "8", "9">>

\* Number.prototype.toString() of a natural number
RECURSIVE toString(_)
toString(n) ==
    IF n < 10 THEN <<DigitChars[n + 1]>>
    ELSE Append(toString(n \div 10), DigitChars[(n % 10) + 1])

\* String.prototype.padStart(len, ch)
RECURSIVE PadStart(_, _, _)
PadStart(str, len, ch) ==
    IF Len(str) >= len THEN str ELSE PadStart(<<ch>> \o str, len, ch)

\* String.prototype.slice(-k)
SliceLast(str, k) ==
    IF Len(str) <= k THEN str ELSE SubSeq(str, Len(str) - k + 1, Len(str))

\* receiptNumber
ReceiptNumber(now, rnd) ==
    SliceLast(toString(now.year), 2)
        \o PadStart(toString(now.month + 1), 2, "0")
        \o PadStart(toString(now.date), 2, "0")
        \o <<"-">>
        \o PadStart(toString(rnd), 4, "0")

\* the receipt with its ticket block (numero and the date of now)
DatedReceipt(method, customer, text, items, now, rnd) ==
    [ticket |-> [numero |-> ReceiptNumber(now, rnd), date |-> now]]
        @@ Receipt(method, customer, text, items)

\* ShiftAfter with expected_cash fed by every method
ShiftAfterAnyMethod(prev, method, totalRounded) ==
    [prev EXCEPT
       !.cash_sales = prev.cash_sales + (IF method = "cash" THEN totalRounded ELSE 0),
       !.card_sales = prev.card_sales + (IF method = "credit_card" THEN totalRounded ELSE 0),
       !.cheque_sales = prev.cheque_sales + (IF method = "cheque" THEN totalRounded ELSE 0),
       !.total_sales = prev.total_sales + totalRounded,
       !.expected_cash = prev.opening_balance + prev.cash_sales + totalRounded]

\* ShiftAfter whose total_sales leaves the cheques out
ShiftAfterTotalWithoutCheque(prev, method, totalRounded) ==
    [prev EXCEPT
       !.cash_sales = prev.cash_sales + (IF method = "cash" THEN totalRounded ELSE 0),
       !.card_sales = prev.card_sales + (IF method = "credit_card" THEN totalRounded ELSE 0),
       !.cheque_sales = prev.cheque_sales + (IF method = "cheque" THEN totalRounded ELSE 0),
       !.total_sales = prev.total_sales + (IF method = "cheque" THEN 0 ELSE totalRounded),
       !.expected_cash = prev.opening_balance + prev.cash_sales
                           + (IF method = "cash" THEN totalRounded ELSE 0)]

\* the setActiveShift updater
ShiftAfter(prev, method, totalRounded) ==
    [prev EXCEPT
       !.cash_sales = prev.cash_sales + (IF method = "cash" THEN totalRounded ELSE 0),
       !.card_sales = prev.card_sales + (IF method = "credit_card" THEN totalRounded ELSE 0),
       !.cheque_sales = prev.cheque_sales + (IF method = "cheque" THEN totalRounded ELSE 0),
       !.total_sales = prev.total_sales + totalRounded,
       !.expected_cash = prev.opening_balance + prev.cash_sales
                           + (IF method = "cash" THEN totalRounded ELSE 0)]

\* StockAfter taking one unit per line instead of the line quantity
StockAfterOneUnit(prev, items) ==
    [p \in DOMAIN prev |-> IF HasLine(items, p) THEN prev[p] - 1 ELSE prev[p]]

\* the setProducts updater
StockAfter(prev, items) ==
    [p \in DOMAIN prev |->
       IF HasLine(items, p) THEN prev[p] - LineOf(items, p).quantity ELSE prev[p]]

\* CreditAfter taking 'credit_card' for the credit method as well
CreditAfterCard(prev, customer, method, totalRounded) ==
    IF customer # NoCustomer /\ method \in {"credit", "credit_card"}
    THEN [c \in DOMAIN prev |->
            IF c = customer THEN prev[c] + totalRounded ELSE prev[c]]
    ELSE prev

\* the customer credit update: setCustomers runs only for a selected customer
\* and paymentMethod === 'credit'
CreditAfter(prev, customer, method, totalRounded) ==
    IF customer # NoCustomer /\ method = "credit"
    THEN [c \in DOMAIN prev |->
            IF c = customer THEN prev[c] + totalRounded ELSE prev[c]]
    ELSE prev

\* if (cart.length === 0) { toast; return }
payEmptyCart(method, customer, text) ==
    /\ cart = <<>>
    /\ toast' = [title |-> "Panier vide", value |-> 0]
    /\ UNCHANGED <<cart, products, customers, currentReceipt, activeShift,
                   isProcessing, nSales, settled>>

\* if (paymentMethod === 'cash' && paid < cartTotals.totalRounded) { toast; return }
payInsufficient(method, customer, text) ==
    /\ cart # <<>>
    /\ Insufficient(method, text, cart)
    /\ toast' = [title |-> "Montant insuffisant",
                 value |-> cartTotals(cart).totalRounded - ParsePaid(text)]
    /\ UNCHANGED <<cart, products, customers, currentReceipt, activeShift,
                   isProcessing, nSales, settled>>

\* payEffects without the finally block: setIsProcessing(true) stands
payEffectsWithoutFinally(method, customer, text) ==
    LET t == cartTotals(cart) IN
    /\ cart # <<>>
    /\ ~Insufficient(method, text, cart)
    /\ activeShift' = ShiftAfter(activeShift, method, t.totalRounded)
    /\ products' = StockAfter(products, cart)
    /\ customers' = CreditAfter(customers, customer, method, t.totalRounded)
    /\ cart' = <<>>
    /\ isProcessing' = TRUE
    /\ toast' = [title |-> "Paiement reussi", value |-> t.totalRounded]
    /\ nSales' = nSales + 1
    /\ settled' = [settled EXCEPT ![method] = @ + t.totalRounded]

\* the try block; setIsProcessing(true) and the setIsProcessing(false) of
\* the finally block are queued by the same handler, so the next render
\* sees false
payEffects(method, customer, text) ==
    LET t == cartTotals(cart) IN
    /\ cart # <<>>
    /\ ~Insufficient(method, text, cart)
    /\ activeShift' = ShiftAfter(activeShift, method, t.totalRounded)
    /\ products' = StockAfter(products, cart)
    /\ customers' = CreditAfter(customers, customer, method, t.totalRounded)
    /\ cart' = <<>>
    /\ isProcessing' = FALSE
    /\ toast' = [title |-> "Paiement reussi", value |-> t.totalRounded]
    /\ nSales' = nSales + 1
    /\ settled' = [settled EXCEPT ![method] = @ + t.totalRounded]

\* the receipt of Receipt(...) has the articles, total and paiement blocks
payCommit(method, customer, text) ==
    /\ payEffects(method, customer, text)
    /\ currentReceipt' = Receipt(method, customer, text, cart)

\* the same with the ticket block: now is what new Date() returns, as
\* [year, month, date] with month as getMonth() gives it (0 for January),
\* rnd is Math.floor(Math.random() * 10000)
payCommitDated(method, customer, text, now, rnd) ==
    /\ payEffects(method, customer, text)
    /\ currentReceipt' = DatedReceipt(method, customer, text, cart, now, rnd)

\* the pay button, on a render whose paymentMethod, currentCustomer (its
\* id, or NoCustomer for null) and amountPaid are method, customer and text
processPayment(method, customer, text) ==
    /\ Open
    /\ op' = <<"processPayment", method, customer, text>>
    /\ \/ payEmptyCart(method, customer, text)
       \/ payInsufficient(method, customer, text)
       \/ payCommit(method, customer, text)
    /\ UNCHANGED components

\* the pay button with cartTotals.totalRounded as the doubles give it
processPaymentFloat(method, customer, text) ==
    \E due \in {cartTotalsFloat(cart).totalRounded} :
    /\ Open
    /\ op' = <<"processPayment", method, customer, text>>
    /\ \/ payEmptyCart(method, customer, text)
       \/ /\ cart # <<>>
          /\ method = "cash" /\ ParsePaid(text) < due
          /\ toast' = [title |-> "Montant insuffisant", value |-> due - ParsePaid(text)]
          /\ UNCHANGED <<cart, products, customers, currentReceipt, activeShift,
                         isProcessing, nSales, settled>>
       \/ /\ cart # <<>>
          /\ ~(method = "cash" /\ ParsePaid(text) < due)
          /\ activeShift' = ShiftAfter(activeShift, method, due)
          /\ products' = StockAfter(products, cart)
          /\ customers' = CreditAfter(customers, customer, method, due)
          /\ currentReceipt' = [Receipt(method, customer, text, cart)
                                  EXCEPT !.total.net_a_payer = due,
                                         !.paiement.rendu =
                                            IF ParsePaid(text) > due
                                            THEN ParsePaid(text) - due ELSE 0]
          /\ cart' = <<>>
          /\ isProcessing' = FALSE
          /\ toast' = [title |-> "Paiement reussi", value |-> due]
          /\ nSales' = nSales + 1
          /\ settled' = [settled EXCEPT ![method] = @ + due]
    /\ UNCHANGED components

\* the try block run by two calls of the processPayment of one render: the
\* second call reads the same cart, cartTotals, paymentMethod, amountPaid and
\* currentCustomer as the first; the updaters that both calls queue
\* (setActiveShift, setProducts, setCustomers take the previous state) are
\* applied one after the other in the next render, and setCurrentReceipt
\* keeps the receipt of the second call
payCommitTwice(method, customer, text) ==
    LET t == cartTotals(cart) IN
    /\ cart # <<>>
    /\ ~Insufficient(method, text, cart)
    /\ currentReceipt' = Receipt(method, customer, text, cart)
    /\ activeShift' = ShiftAfter(ShiftAfter(activeShift, method, t.totalRounded),
                                 method, t.totalRounded)
    /\ products' = StockAfter(StockAfter(products, cart), cart)
    /\ customers' = CreditAfter(CreditAfter(customers, customer, method, t.totalRounded),
                                customer, method, t.totalRounded)
    /\ cart' = <<>>
    /\ isProcessing' = FALSE
    /\ toast' = [title |-> "Paiement reussi", value |-> t.totalRounded]
    /\ nSales' = nSales + 2
    /\ settled' = [settled EXCEPT ![method] = @ + 2 * t.totalRounded]

\* two clicks on the pay button handled before the render that follows the
\* first: isProcessing is false and the cart is the same for both calls
processPaymentTwice(method, customer, text) ==
    /\ Open
    /\ op' = <<"processPaymentTwice", method, customer, text>>
    /\ \/ payEmptyCart(method, customer, text)
       \/ payInsufficient(method, customer, text)
       \/ payCommitTwice(method, customer, text)
    /\ UNCHANGED components

\* what the cashier has set when the pay button is clicked: the method, the
\* customer, and the amount field (left empty, typed, or filled by the
\* "Total" button with cartTotals.totalRounded.toString())
Settings ==
    { <<"cash", NoCustomer, <<>> >>,
      <<"cash", NoCustomer, Fifty>>,
      <<"cash", NoCustomer, Hundred>>,
      <<"cash", 2, <<cartTotals(cart).totalRounded>> >>,
      <<"credit_card", NoCustomer, Hundred>>,
      <<"credit_card", 1, <<>> >>,
      <<"credit", NoCustomer, <<>> >>,
      <<"credit", 2, <<>> >>,
      <<"cheque", 2, Hundred>>,
      <<"mobile_money", NoCustomer, <<>> >>,
      <<"bank_transfer", 1, <<>> >> }

(***************************************************************************)
(* ShiftManager (the second component of src/routes/pos/index.tsx)         *)
(***************************************************************************)
\* the argument of useState: one closed shift, SHIFT001
InitShifts ==
    << [id |-> <<"S", "H", "I", "F", "T", "0", "0", "1">>,
        status |-> "closed",
        start_time |-> [year |-> 2024, month |-> 0, date |-> 15]] >>

\* `SHIFT${(shifts.length + 1).toString().padStart(3, '0')}`
ShiftId(list) ==
    <<"S", "H", "I", "F", "T">> \o PadStart(toString(Len(list) + 1), 3, "0")

\* const newShift: now is what new Date() returns
NewShift(list, now) == [id |-> ShiftId(list), status |-> "open", start_time |-> now]

\* the button "Ouvrir un nouveau shift": setShifts([newShift, ...shifts])
openShift(now) ==
    /\ Len(shifts) < MaxShifts
    /\ shifts' = <<NewShift(shifts, now)>> \o shifts
    /\ op' = <<"openShift">>
    /\ UNCHANGED <<register, storedValue, localStorage, rowSelection, pending, clock>>

(***************************************************************************)
(* useLocalStorage (src/hooks/use-local-storage.ts, the named export) with *)
(* T = SelectionState | null, as DataTableBulkActions calls it.  A JSON    *)
(* text is the sequence of its tokens, the digits of a number one by one.  *)
(***************************************************************************)
\* ids of table.getRowModel().rows, in the order of the table
Rows == <<"r1", "r2">>
RowIds == {Rows[i] : i \in DOMAIN Rows}

\* null
Null == [null |-> TRUE]

\* what getItem returns for a key that has no item: null
NoItem == <<>>

\* JSON.stringify(valueToStore)
JSONstringify(value) ==
    IF value = Null THEN <<"null">>
    ELSE <<"{", "selectedIds", "[">> \o value.selectedIds
           \o <<"]", "timestamp">> \o toString(value.timestamp) \o <<"}">>

\* the digit that a character of a numeral stands for
DigitOf(ch) == (CHOOSE d \in DOMAIN DigitChars : DigitChars[d] = ch) - 1

\* the number that a decimal numeral stands for
RECURSIVE ParseNat(_)
ParseNat(str) ==
    IF str = <<>> THEN 0
    ELSE ParseNat(SubSeq(str, 1, Len(str) - 1)) * 10 + DigitOf(str[Len(str)])

\* JSON.parse(item), of the texts that JSON.stringify writes
JSONparse(text) ==
    IF text = <<"null">> THEN Null
    ELSE LET close == CHOOSE k \in DOMAIN text : text[k] = "]"
         IN [selectedIds |-> SubSeq(text, 4, close - 1),
             timestamp |-> ParseNat(SubSeq(text, close + 2, Len(text) - 1))]

\* the initializer of useState: item ? JSON.parse(item) : initialValue
InitialValue(item, initialValue) ==
    IF item # NoItem THEN JSONparse(item) ELSE initialValue

\* the selected ids of a value of the hook
IdsOf(val) == IF val = Null THEN <<>> ELSE val.selectedIds

\* updater functions that a caller hands to setValue: <<"add", id>> is
\*   val => ({ selectedIds: [...(val?.selectedIds ?? []), id] minus a
\*             duplicate, timestamp: val?.timestamp ?? 0 })
\* and <<"remove", id>> is
\*   val => val && { ...val, selectedIds: val.selectedIds.filter(x => x !== id) }
Updaters == {<<kind, id>> : kind \in {"add", "remove"}, id \in RowIds}

\* value(storedValue) for an updater function
Apply(f, val) ==
    LET Keep(x) == x # f[2] IN
    IF f[1] = "add"
    THEN [selectedIds |-> Append(SelectSeq(IdsOf(val), Keep), f[2]),
          timestamp |-> IF val = Null THEN 0 ELSE val.timestamp]
    ELSE IF val = Null THEN Null
         ELSE [val EXCEPT !.selectedIds = SelectSeq(val.selectedIds, Keep)]

\* the other components and the clock stay as they are
HookFrame == UNCHANGED <<register, shifts, rowSelection, pending, clock>>

\* setValue(value) with a value: setStoredValue(valueToStore) and
\* localStorage.setItem(key, JSON.stringify(valueToStore))
setValue(value) ==
    /\ storedValue' = value
    /\ localStorage' = JSONstringify(value)
    /\ op' = <<"setValue", value>>
    /\ HookFrame

\* setValue(f) with an updater function: valueToStore = f(storedValue), for
\* the storedValue of the render that made this setValue
setValueWith(f) ==
    /\ storedValue' = Apply(f, storedValue)
    /\ localStorage' = JSONstringify(Apply(f, storedValue))
    /\ op' = <<"setValueWith", f>>
    /\ HookFrame

\* setValue(f) and then setValue(g) in one handler: both are the setValue
\* of the same render, so both read the storedValue of that render; the
\* second setStoredValue and the second setItem are the ones that stay
setValueTwice(f, g) ==
    /\ storedValue' = Apply(g, storedValue)
    /\ localStorage' = JSONstringify(Apply(g, storedValue))
    /\ op' = <<"setValueTwice", f, g>>
    /\ HookFrame

\* the page is loaded again: useState runs its initializer
remount ==
    /\ storedValue' = InitialValue(localStorage, Null)
    /\ localStorage' = localStorage
    /\ op' = <<"remount">>
    /\ HookFrame

(***************************************************************************)
(* DataTableBulkActions with persistSelection, over a table of the rows    *)
(* Rows.  A render step is a render of the component together with the     *)
(* effects that run after it; pending holds what makes them run:           *)
(* "mount" (first render), "selection" (selectedIds is a new array) and    *)
(* "stored" (storedSelection is a new value, and with it setStoredSelection*)
(* a new function, as storedValue is a dependency of setValue).            *)
(***************************************************************************)
\* 24 * 60 * 60 * 1000 ms, in hours
Day == 24

\* the clock advances by half a day at a time
HalfDay == Day \div 2

\* selectedRows.map(row => row.id)
SelectedIds(selection) ==
    LET Selected(r) == r \in selection IN SelectSeq(Rows, Selected)

\* the effect "Load persisted selection" without the test of the age
RestoredRowsAnyAge(stored, time) ==
    IF stored # Null
    THEN {r \in RowIds : \E i \in DOMAIN stored.selectedIds : stored.selectedIds[i] = r}
    ELSE {}

\* the effect "Load persisted selection": the rows it calls
\* toggleSelected(true) on, for storedSelection stored at Date.now() time
RestoredRows(stored, time) ==
    IF stored # Null /\ time - stored.timestamp < Day
    THEN {r \in RowIds : \E i \in DOMAIN stored.selectedIds : stored.selectedIds[i] = r}
    ELSE {}

\* the effect "Save selection to localStorage": the argument of
\* setStoredSelection
SavedSelection(selection, time) ==
    IF selection # {}
    THEN [selectedIds |-> SelectedIds(selection), timestamp |-> time]
    ELSE Null

\* the load effect runs on the first render and when storedSelection is new
LoadRuns == pending \cap {"mount", "stored"} # {}

\* what the load effect of the render step does
LoadOutcome ==
    IF ~LoadRuns \/ storedValue = Null THEN "none"
    ELSE IF clock - storedValue.timestamp < Day THEN "restored" ELSE "expired"

\* a render and its effects.  Both effects see the values of the render;
\* the save effect runs in every such step, as each of "mount", "selection"
\* and "stored" changes one of its dependencies.  setStoredValue of an
\* object literal gives a new value to the next render, setStoredValue(null)
\* over null does not.
render ==
    LET restored == IF LoadRuns THEN RestoredRows(storedValue, clock) ELSE {}
        saved == SavedSelection(rowSelection, clock)
    IN /\ pending # {}
       /\ rowSelection' = rowSelection \cup restored
       /\ storedValue' = saved
       /\ localStorage' = JSONstringify(saved)
       /\ pending' = (IF rowSelection' # rowSelection THEN {"selection"} ELSE {})
                       \cup (IF saved = Null /\ storedValue = Null THEN {} ELSE {"stored"})
       /\ op' = <<"render", LoadOutcome>>
       /\ UNCHANGED <<register, shifts, clock>>

\* a click on the checkbox of a row: row.toggleSelected()
toggleSelected(r) ==
    /\ rowSelection' = IF r \in rowSelection THEN rowSelection \ {r}
                                             ELSE rowSelection \cup {r}
    /\ pending' = pending \cup {"selection"}
    /\ op' = <<"toggleSelected", r>>
    /\ UNCHANGED <<register, shifts, storedValue, localStorage, clock>>

\* handleSelectAll: table.toggleAllRowsSelected(); the toolbar is rendered
\* for a selection that is not empty
handleSelectAll ==
    /\ rowSelection # {}
    /\ rowSelection' = IF rowSelection = RowIds THEN {} ELSE RowIds
    /\ pending' = pending \cup {"selection"}
    /\ op' = <<"handleSelectAll">>
    /\ UNCHANGED <<register, shifts, storedValue, localStorage, clock>>

\* handleClearSelection: table.resetRowSelection() and
\* setStoredSelection(null)
handleClearSelection ==
    /\ rowSelection # {}
    /\ rowSelection' = {}
    /\ storedValue' = Null
    /\ localStorage' = JSONstringify(Null)
    /\ pending' = pending \cup {"selection"}
                    \cup (IF storedValue = Null THEN {} ELSE {"stored"})
    /\ op' = <<"handleClearSelection">>
    /\ UNCHANGED <<register, shifts, clock>>

\* half a day passes
tick ==
    /\ clock + HalfDay <= MaxTime
    /\ clock' = clock + HalfDay
    /\ op' = <<"tick">>
    /\ UNCHANGED <<register, shifts, storedValue, localStorage, rowSelection, pending>>

\* the page is loaded again: the table starts with no row selected and the
\* hook reads the item
mount ==
    /\ rowSelection' = {}
    /\ storedValue' = InitialValue(localStorage, Null)
    /\ pending' = {"mount"}
    /\ op' = <<"mount">>
    /\ UNCHANGED <<register, shifts, localStorage, clock>>

(***************************************************************************)
(* Initial state and specification                                         *)
(***************************************************************************)
\* the other components before their first render
InitComponents ==
    /\ shifts = InitShifts
    /\ storedValue = Null
    /\ localStorage = NoItem
    /\ rowSelection = {}
    /\ pending = {}
    /\ clock = 0

\* the cart after BulkQty calls of addToCart(BulkProduct) on the first
\* render; addToCart checks nothing, so every such cart is reachable
BulkCart == <<[id |-> BulkProduct, quantity |-> BulkQty, discount |-> 0,
               stock |-> InitStock[BulkProduct]]>>

InitShift ==
    [opening_balance |-> OpeningBalance,
     cash_sales |-> 0,
     card_sales |-> 0,
     cheque_sales |-> 0,
     total_sales |-> 0,
     expected_cash |-> OpeningBalance,
     status |-> "open"]

\* the register at its first render
InitRegister ==
    /\ cart = <<>>
    /\ products = InitStock
    /\ customers = InitCreditUsed
    /\ currentReceipt = NoReceipt
    /\ activeShift = InitShift
    /\ isProcessing = FALSE
    /\ toast = NoToast
    /\ op = <<"init">>
    /\ nSales = 0
    /\ settled = [m \in Methods |-> 0]

\* the state of the first render
Init == InitRegister /\ InitComponents

Next ==
    \/ \E p \in ProductIds : addToCart(p)
    \/ \E p \in ProductIds, d \in Deltas : updateQuantity(p, d)
    \/ \E p \in ProductIds : removeFromCart(p)
    \/ clearCart
    \/ \E s \in Settings : processPayment(s[1], s[2], s[3])

Spec == Init /\ [][Next]_vars

\* the register from the moment the cart holds BulkQty units of BulkProduct
InitBulk ==
    /\ cart = BulkCart
    /\ products = InitStock
    /\ customers = InitCreditUsed
    /\ currentReceipt = NoReceipt
    /\ activeShift = InitShift
    /\ isProcessing = FALSE
    /\ toast = NoToast
    /\ op = <<"addToCart">>
    /\ nSales = 0
    /\ settled = [m \in Methods |-> 0]
    /\ InitComponents

SpecBulk == InitBulk /\ [][Next]_vars

\* the pay button, with the clock and the random number of the call
processPaymentDated(method, customer, text, now, rnd) ==
    /\ Open
    /\ op' = <<"processPayment", method, customer, text>>
    /\ \/ payEmptyCart(method, customer, text)
       \/ payInsufficient(method, customer, text)
       \/ payCommitDated(method, customer, text, now, rnd)
    /\ UNCHANGED components

\* the cart of a first settlement
FirstCart == <<[id |-> 2, quantity |-> 1, discount |-> 0, stock |-> InitStock[2]]>>

\* the register after a first settlement (FirstCart by credit card) that
\* left receipt; nSales and settled count from here
AfterFirstSale(receipt) ==
    /\ cart = <<>>
    /\ products = StockAfter(InitStock, FirstCart)
    /\ customers = InitCreditUsed
    /\ currentReceipt = receipt
    /\ activeShift = ShiftAfter(InitShift, "credit_card", cartTotals(FirstCart).totalRounded)
    /\ isProcessing = FALSE
    /\ toast = [title |-> "Paiement reussi", value |-> cartTotals(FirstCart).totalRounded]
    /\ op = <<"processPayment", "credit_card", NoCustomer, <<>> >>
    /\ nSales = 0
    /\ settled = [m \in Methods |-> 0]
    /\ InitComponents

\* after a first settlement on one of the dates and with one of the draws
InitTickets ==
    \E now \in Dates, rnd \in Draws :
       AfterFirstSale(DatedReceipt("credit_card", NoCustomer, <<>>, FirstCart, now, rnd))

NextTickets ==
    \/ \E p \in ProductIds : addToCart(p)
    \/ \E p \in ProductIds, d \in Deltas : updateQuantity(p, d)
    \/ \E p \in ProductIds : removeFromCart(p)
    \/ clearCart
    \/ \E s \in Settings, now \in Dates, rnd \in Draws :
          processPaymentDated(s[1], s[2], s[3], now, rnd)

SpecTickets == InitTickets /\ [][NextTickets]_vars

\* the cart handlers with their arguments on record, followed up to the
\* first settlement
BeforeSale == nSales = 0

NextCart ==
    \/ \E p \in ProductIds : BeforeSale /\ addToCartCall(p)
    \/ \E p \in ProductIds, d \in CartDeltas : BeforeSale /\ updateQuantityCall(p, d)
    \/ \E p \in ProductIds : BeforeSale /\ removeFromCartCall(p)
    \/ \E p \in ProductIds, d \in Percents : BeforeSale /\ applyDiscount(p, d)
    \/ \E b \in Barcodes : BeforeSale /\ scanProduct(b)
    \/ BeforeSale /\ clearCart
    \/ \E s \in Settings : BeforeSale /\ processPayment(s[1], s[2], s[3])

\* the cart from the first render
SpecCart == Init /\ [][NextCart]_vars

\* the cart after a first settlement has lowered a stock
InitScan == AfterFirstSale(Receipt("credit_card", NoCustomer, <<>>, FirstCart))

SpecScan == InitScan /\ [][NextCart]_vars

\* a cart line of a product of TotalsProducts, as addToCart, updateQuantity
\* and applyDiscount leave it
TotalsLines ==
    [id : TotalsProducts, quantity : 1..MaxQty, discount : TotalsPercents,
     stock : {MaxStock}]

\* the carts of at most one line per product of TotalsProducts
TotalsCarts ==
    {c \in UNION {[1..n -> TotalsLines] : n \in 0..Cardinality(TotalsProducts)} :
        \A i, j \in DOMAIN c : c[i].id = c[j].id => i = j}

\* the register with the three products of TotalsProducts in the store and
\* one of TotalsCarts in the cart; the calls that filled the cart are not
\* on record
InitTotals ==
    /\ cart \in TotalsCarts
    /\ products = [p \in TotalsProducts |-> MaxStock]
    /\ customers = InitCreditUsed
    /\ currentReceipt = NoReceipt
    /\ activeShift = InitShift
    /\ isProcessing = FALSE
    /\ toast = NoToast
    /\ op = <<"cart">>
    /\ nSales = 0
    /\ settled = [m \in Methods |-> 0]
    /\ InitComponents

\* cartTotals of the cart of every render, and the settlement that copies
\* it into the receipt
NextTotals == \E s \in Settings : processPayment(s[1], s[2], s[3])

SpecTotals == InitTotals /\ [][NextTotals]_vars

\* the register when two calls of processPayment may run on one render
NextDouble ==
    \/ Next
    \/ \E s \in Settings : processPaymentTwice(s[1], s[2], s[3])

SpecDouble == Init /\ [][NextDouble]_vars

\* discounts of the discount menu for the carts of SpecFloat
FloatPercents == {0, 10}

\* the products of the carts of SpecFloat: '1' (32.50, 20 %) and
\* '4' (11.50, 10 %)
FloatProducts == {1, 4}

\* the cart lines of SpecFloat
FloatLines ==
    [id : FloatProducts, quantity : 1..MaxQty, discount : FloatPercents,
     stock : {MaxStock}]

\* the carts of at most one line per product of FloatProducts
FloatCarts ==
    {c \in UNION {[1..n -> FloatLines] : n \in 0..Cardinality(FloatProducts)} :
        \A i, j \in DOMAIN c : c[i].id = c[j].id => i = j}

\* the register with one of FloatCarts in the cart
InitFloat ==
    /\ cart \in FloatCarts
    /\ products = [p \in TotalsProducts |-> MaxStock]
    /\ customers = InitCreditUsed
    /\ currentReceipt = NoReceipt
    /\ activeShift = InitShift
    /\ isProcessing = FALSE
    /\ toast = NoToast
    /\ op = <<"cart">>
    /\ nSales = 0
    /\ settled = [m \in Methods |-> 0]
    /\ InitComponents

\* what the cashier has set when the pay button is clicked in SpecFloat
FloatSettings ==
    { <<"cash", NoCustomer, <<>> >>,
      <<"cash", NoCustomer, Hundred>>,
      <<"cash", NoCustomer, <<cartTotalsFloat(cart).totalRounded>> >>,
      <<"credit_card", NoCustomer, <<>> >> }

\* the settlement with the arithmetic of the JavaScript numbers
NextFloat == \E s \in FloatSettings : processPaymentFloat(s[1], s[2], s[3])

SpecFloat == InitFloat /\ [][NextFloat]_vars

\* ShiftManager from its first render
NextShifts == \E now \in Dates : openShift(now)

SpecShifts == Init /\ [][NextShifts]_vars

\* the values that a caller hands to setValue
StoredValues ==
    {Null} \cup [selectedIds : {SelectedIds(sel) : sel \in SUBSET RowIds},
                 timestamp : {0, HalfDay}]

\* the hook at its first render, over an item that an earlier visit may
\* have left
InitStorage ==
    /\ InitRegister
    /\ shifts = InitShifts
    /\ localStorage \in {NoItem} \cup {JSONstringify(v) : v \in StoredValues}
    /\ storedValue = InitialValue(localStorage, Null)
    /\ rowSelection = {}
    /\ pending = {}
    /\ clock = 0

NextStorage ==
    \/ \E v \in StoredValues : setValue(v)
    \/ \E f \in Updaters : setValueWith(f)
    \/ \E f \in Updaters, g \in Updaters : setValueTwice(f, g)
    \/ remount

SpecStorage == InitStorage /\ [][NextStorage]_vars

\* DataTableBulkActions at its first render, on a first visit
InitSelection ==
    /\ InitRegister
    /\ shifts = InitShifts
    /\ localStorage = NoItem
    /\ storedValue = InitialValue(localStorage, Null)
    /\ rowSelection = {}
    /\ pending = {"mount"}
    /\ clock = 0

NextSelection ==
    \/ render
    \/ \E r \in RowIds : toggleSelected(r)
    \/ handleSelectAll
    \/ handleClearSelection
    \/ tick
    \/ mount

SpecSelection == InitSelection /\ [][NextSelection]_vars

(***************************************************************************)
(* Properties                                                              *)
(***************************************************************************)
\* the step is a call of processPayment
IsPay == op'[1] = "processPayment"

\* inputs of the processPayment call of the step
PayMethod == op'[2]
PayCustomer == op'[3]
PayText == op'[4]

\* the step is a call of processPayment that reported success
Succeeds == IsPay /\ toast'.title = "Paiement reussi"

\* totalRounded of the cart before the step
Due == cartTotals(cart).totalRounded

\* units of product p in a cart
RECURSIVE UnitsOf(_, _)
UnitsOf(items, p) ==
    IF items = <<>> THEN 0
    ELSE UnitsOf(Tail(items), p) + (IF Head(items).id = p THEN Head(items).quantity ELSE 0)

\* the last handler call was a processPayment that reported success
Settled == op[1] = "processPayment" /\ toast.title = "Paiement reussi"

\* C1: when a settlement commits, every cart line has a quantity q with
\* 1 <= q <= the current stock of its product.
C1_QuantityWithinStockAtCommit ==
    [][Succeeds =>
         \A i \in DOMAIN cart :
            /\ 1 <= cart[i].quantity
            /\ cart[i].quantity <= products[cart[i].id]]_vars

\* a precondition of settlement, as the claim lists them, fails
PreconditionFails(method, customer, text) ==
    \/ cart = <<>>
    \/ method = "cash" /\ ParsePaid(text) < Due
    \/ method = "credit" /\ customer = NoCustomer
    \/ /\ method = "credit"
       /\ customer # NoCustomer
       /\ customers[customer] + Due > credit_limit(customer)
    \/ activeShift.status = "closed"
    \/ \E i \in DOMAIN cart : cart[i].quantity > products[cart[i].id]

\* C2: a processPayment call on which a precondition fails leaves the cart,
\* every stock, the shift, every credit_used and the current receipt as they
\* were.
C2_FailedSettlementChangesNothing ==
    [][(IsPay /\ PreconditionFails(PayMethod, PayCustomer, PayText)) =>
         UNCHANGED <<cart, products, activeShift, customers, currentReceipt>>]_vars

\* C3: a successful processPayment empties the cart, takes exactly the line
\* quantity from the stock of each product of the cart and nothing from the
\* others, adds totalRounded to the shift ledger and leaves a receipt whose
\* net_a_payer is that totalRounded, all in the same step.
C3_SettlementAppliesAllEffects ==
    [][Succeeds =>
         /\ cart' = <<>>
         /\ \A p \in ProductIds : products'[p] = products[p] - UnitsOf(cart, p)
         /\ activeShift'.total_sales = activeShift.total_sales + Due
         /\ currentReceipt' # NoReceipt
         /\ currentReceipt'.total.net_a_payer = Due]_vars

\* a settlement of a cart of two lines, one of them with two units, went through
C3_Witness ==
    /\ Settled
    /\ cart = <<>>
    /\ Len(currentReceipt.articles) = 2
    /\ \E i \in DOMAIN currentReceipt.articles : currentReceipt.articles[i].quantite = 2
    /\ activeShift.total_sales = currentReceipt.total.net_a_payer

\* C4: the stock of every product is >= 0 in every reachable state.
C4_StockNeverNegative == \A p \in ProductIds : products[p] >= 0

C7_CreditUsedGrowsByTotal ==
    [][Succeeds =>
         \A c \in CustomerIds :
            customers'[c] = customers[c]
                + (IF PayMethod = "credit" /\ c = PayCustomer THEN Due ELSE 0)]_vars

\* a settlement by credit for customer 2 went through with a positive total
C7_Witness ==
    /\ Settled
    /\ op[2] = "credit"
    /\ op[3] = 2
    /\ currentReceipt.total.net_a_payer > 0
    /\ customers[2] = InitCreditUsed[2] + currentReceipt.total.net_a_payer

\* C8: on a non-empty cart, a cash settlement with paid < totalRounded shows
\* "Montant insuffisant" with the shortfall totalRounded - paid and keeps the
\* cart; with paid >= totalRounded it is not rejected.
C8_CashTender ==
    [][(IsPay /\ cart # <<>> /\ PayMethod = "cash") =>
         IF ParsePaid(PayText) < Due
         THEN /\ toast' = [title |-> "Montant insuffisant",
                           value |-> Due - ParsePaid(PayText)]
              /\ cart' = cart
         ELSE Succeeds]_vars

\* a cash settlement with 50.00 on a due of 78.00 was rejected for 28.00
C8_WitnessShort ==
    /\ op = <<"processPayment", "cash", NoCustomer, Fifty>>
    /\ toast = [title |-> "Montant insuffisant", value |-> 2800]
    /\ Len(cart) = 1

\* C9: the change on the receipt of a successful settlement is
\* max(0, paid - totalRounded) for cash and 0 for every other method.
C9_ChangeOnlyForCash ==
    [][Succeeds =>
         currentReceipt'.paiement.rendu =
            IF PayMethod = "cash" /\ ParsePaid(PayText) > Due
            THEN ParsePaid(PayText) - Due
            ELSE 0]_vars

C11_LedgerBucketPerMethod ==
    [][(Succeeds /\ PayMethod \in PaymentMethod) =>
         /\ BucketOf(PayMethod) \in LedgerBuckets
         /\ \A b \in LedgerBuckets :
               activeShift'[b] = activeShift[b]
                   + (IF b = BucketOf(PayMethod) THEN Due ELSE 0)]_vars

\* C13: a cart is committed at most once: no step creates more than one
\* receipt, takes more than the line quantities from the stock, or adds more
\* than totalRounded to the shift ledger or to a customer's credit_used, also
\* when processPayment is called twice on the same render.
C13_CartCommittedAtMostOnce ==
    [][/\ nSales' - nSales <= 1
       /\ \A p \in ProductIds : products[p] - products'[p] <= UnitsOf(cart, p)
       /\ activeShift'.total_sales - activeShift.total_sales <= Due
       /\ \A c \in CustomerIds : customers'[c] - customers[c] <= Due]_vars

\* the ticket number of a receipt of date d: YYMMDD, a dash, four digits
IsTicketNumber(numero, d) ==
    /\ Len(numero) = 11
    /\ numero[1] = DigitChars[((d.year % 100) \div 10) + 1]
    /\ numero[2] = DigitChars[(d.year % 10) + 1]
    /\ numero[3] = DigitChars[((d.month + 1) \div 10) + 1]
    /\ numero[4] = DigitChars[((d.month + 1) % 10) + 1]
    /\ numero[5] = DigitChars[(d.date \div 10) + 1]
    /\ numero[6] = DigitChars[(d.date % 10) + 1]
    /\ numero[7] = "-"
    /\ \A i \in 8..11 : \E k \in 1..10 : numero[i] = DigitChars[k]

\* C14: the ticket number of every receipt has the form YYMMDD-NNNN with
\* four digits NNNN, and differs from the ticket number of the receipt before
\* it when both are of the same date.
C14_TicketNumbers ==
    [][Succeeds =>
         /\ IsTicketNumber(currentReceipt'.ticket.numero, currentReceipt'.ticket.date)
         /\ (currentReceipt # NoReceipt
               /\ currentReceipt.ticket.date = currentReceipt'.ticket.date)
              => currentReceipt'.ticket.numero # currentReceipt.ticket.numero]_vars

\* the form alone
C14_TicketFormat ==
    currentReceipt # NoReceipt =>
        IsTicketNumber(currentReceipt.ticket.numero, currentReceipt.ticket.date)

\* C15: no two lines of the cart reference the same product id.
C15_OneLinePerProduct ==
    \A i, j \in DOMAIN cart : cart[i].id = cart[j].id => i = j

\* addToCart of a product that had a line left a cart of two lines
C15_Witness ==
    /\ op = <<"addToCart", 1>>
    /\ Len(cart) = 2
    /\ LineOf(cart, 1).quantity = 2

\* the step is updateQuantity(CallProduct, CallDelta) on a cart that has a
\* line of CallProduct
IsUpdate == op'[1] = "updateQuantity" /\ HasLine(cart, op'[2])
CallProduct == op'[2]
CallDelta == op'[3]

\* C16: updateQuantity whose resulting quantity exceeds the stock of the
\* product in the product store leaves the cart as it was.
C16_OverStockRejected ==
    [][(IsUpdate /\ LineOf(cart, CallProduct).quantity + CallDelta > products[CallProduct])
          => cart' = cart]_vars

\* C17: updateQuantity whose resulting quantity would be below 1 leaves the
\* line as it was, and every line of the cart has a quantity >= 1.
C17_BelowOneRejected ==
    [][/\ (IsUpdate /\ LineOf(cart, CallProduct).quantity + CallDelta < 1) => cart' = cart
       /\ \A i \in DOMAIN cart' : cart'[i].quantity >= 1]_vars

\* C18: applyDiscount(productId, p) sets the discount of the line of
\* productId to min(100, max(0, p)) and changes nothing else, every discount
\* lies in 0..100, and applying the same p again changes nothing.
C18_DiscountClamped ==
    [][/\ op'[1] = "applyDiscount" =>
            /\ DOMAIN cart' = DOMAIN cart
            /\ \A i \in DOMAIN cart :
                  cart'[i] = IF cart[i].id = op'[2]
                             THEN [cart[i] EXCEPT !.discount =
                                      IF op'[3] < 0 THEN 0
                                      ELSE IF op'[3] > 100 THEN 100 ELSE op'[3]]
                             ELSE cart[i]
            /\ SetDiscount(cart', op'[2], op'[3]) = cart'
       /\ \A i \in DOMAIN cart' : cart'[i].discount \in 0..100]_vars

\* a discount of 150 on one line of a cart of two became 100
C18_Witness ==
    /\ op = <<"applyDiscount", 1, 150>>
    /\ Len(cart) = 2
    /\ LineOf(cart, 1).discount = 100

\* position of the line of product p
Pos(items, p) == CHOOSE i \in DOMAIN items : items[i].id = p

\* the product that the addToCart of the step is called with
IsAdd ==
    \/ op'[1] = "addToCart"
    \/ op'[1] = "scanProduct" /\ FindByBarcode(op'[2]) # NoProduct
Added == IF op'[1] = "addToCart" THEN op'[2] ELSE FindByBarcode(op'[2])

\* C19: addToCart of a product that has a line adds 1 to the quantity of that
\* line and keeps every line at its position; addToCart of a product without
\* a line appends a line with quantity 1 and discount 0.  In every step the
\* lines that stay keep their relative order and come before a new line.
C19_AddLine ==
    [][/\ IsAdd =>
            IF HasLine(cart, Added)
            THEN /\ DOMAIN cart' = DOMAIN cart
                 /\ \A i \in DOMAIN cart :
                       cart'[i] = IF cart[i].id = Added
                                  THEN [cart[i] EXCEPT !.quantity = cart[i].quantity + 1]
                                  ELSE cart[i]
            ELSE /\ Len(cart') = Len(cart) + 1
                 /\ SubSeq(cart', 1, Len(cart)) = cart
                 /\ cart'[Len(cart')].id = Added
                 /\ cart'[Len(cart')].quantity = 1
                 /\ cart'[Len(cart')].discount = 0
       /\ \A i, j \in DOMAIN cart' :
            (i < j /\ HasLine(cart, cart'[j].id)) =>
                /\ HasLine(cart, cart'[i].id)
                /\ Pos(cart, cart'[i].id) < Pos(cart, cart'[j].id)]_vars

\* addToCart added a unit to the first of two lines, which kept its place
\* and its discount
C19_Witness ==
    /\ op = <<"addToCart", 2>>
    /\ Len(cart) = 2
    /\ cart[1].id = 2
    /\ cart[1].quantity = 2
    /\ cart[1].discount = 20
    /\ cart[2].id = 1

\* VAT of the lines of rate pct, line by line
RECURSIVE VatOfRate(_, _)
VatOfRate(items, pct) ==
    IF items = <<>> THEN 0
    ELSE VatOfRate(Tail(items), pct)
         + (IF TvaPct(Head(items).id) = pct
            THEN ((Price(Head(items).id) * Head(items).quantity
                     * (100 - Head(items).discount)) * pct) \div 100
            ELSE 0)

\* VAT amounts of the articles of rate pct on a receipt
RECURSIVE ArticlesVat(_, _)
ArticlesVat(articles, pct) ==
    IF articles = <<>> THEN 0
    ELSE ArticlesVat(Tail(articles), pct)
         + (IF Head(articles).tva = pct THEN Head(articles).montant_tva ELSE 0)

\* C20: for the cart of every render, tva_10 + tva_14 + tva_20 = tvaTotal,
\* each band is the VAT of the lines of its rate, total = subtotal + tvaTotal
\* and totalRounded = total + arrondi; the total block of a receipt carries
\* the same amounts (each band is the VAT of the articles of its rate).
C20_TotalsAddUp ==
    /\ LET t == cartTotals(cart) IN
          /\ t.tva_10 + t.tva_14 + t.tva_20 = t.tvaTotal
          /\ t.tva_10 = VatOfRate(cart, 10)
          /\ t.tva_14 = VatOfRate(cart, 14)
          /\ t.tva_20 = VatOfRate(cart, 20)
          /\ t.total = t.subtotal + t.tvaTotal
          /\ t.totalRounded * 100 = t.total + t.arrondi
    /\ currentReceipt # NoReceipt =>
          LET r == currentReceipt.total IN
          /\ r.montant_tva_10 = ArticlesVat(currentReceipt.articles, 10)
          /\ r.montant_tva_14 = ArticlesVat(currentReceipt.articles, 14)
          /\ r.montant_tva_20 = ArticlesVat(currentReceipt.articles, 20)
          /\ r.montant_ttc = r.montant_ht + r.montant_tva_10 + r.montant_tva_14
                                 + r.montant_tva_20
          /\ r.net_a_payer * 100 = r.montant_ttc + r.arrondi

\* a cart with a line of each VAT rate, one of them discounted, was settled
\* with a rounding difference
C20_Witness ==
    /\ Settled
    /\ Len(currentReceipt.articles) = 3
    /\ currentReceipt.total.montant_tva_10 > 0
    /\ currentReceipt.total.montant_tva_14 > 0
    /\ currentReceipt.total.montant_tva_20 > 0
    /\ currentReceipt.total.arrondi # 0
    /\ \E i \in DOMAIN currentReceipt.articles :
          LET a == currentReceipt.articles[i]
          IN a.montant_ht < a.prix_unitaire * a.quantite * 100

\* montant_ht of the articles of a receipt, added up
RECURSIVE ArticlesHt(_)
ArticlesHt(articles) ==
    IF articles = <<>> THEN 0
    ELSE ArticlesHt(Tail(articles)) + Head(articles).montant_ht

C24_SnapshotIsCurrentStock ==
    \A i \in DOMAIN cart : cart[i].stock = products[cart[i].id]

\* C25: updateQuantity(productId, -1) on a line of quantity above 1 lowers
\* the quantity of that line by exactly 1, also when addToCart has raised
\* the quantity above the stock of the line.
C25_DecrementLowersByOne ==
    [][(/\ IsUpdate
        /\ CallDelta = -1
        /\ LineOf(cart, CallProduct).quantity > 1)
          => LineOf(cart', CallProduct).quantity
                = LineOf(cart, CallProduct).quantity - 1]_vars

\* the settlements so far used cash, credit_card and cheque only
OnlyLedgerMethods ==
    \A m \in Methods : settled[m] # 0 => m \in {"cash", "credit_card", "cheque"}

\* sum of totalRounded of all the settlements so far
SettledTotal ==
    settled["cash"] + settled["credit_card"] + settled["cheque"] + settled["credit"]
      + settled["mobile_money"] + settled["bank_transfer"]

IsLineCall == op'[1] \in {"updateQuantity", "applyDiscount", "removeFromCart"}

\* the lines of items of the products other than p, in their order
OtherLines(items, p) ==
    LET Other(item) == item.id # p IN SelectSeq(items, Other)

\* C27: a cart operation (addToCart, updateQuantity, removeFromCart,
\* applyDiscount, the barcode scan, emptying the cart) leaves the stock, the
\* shift ledger, the customers and the receipt as they were;
\* updateQuantity, applyDiscount and removeFromCart change at most the line
\* of the product they are called with - the other lines keep their content
\* and their order - and change nothing when that product has no line.
C27_CartOperationsFrame ==
    [][/\ ~IsPay =>
            UNCHANGED <<products, activeShift, customers, currentReceipt>>
       /\ IsLineCall =>
            /\ OtherLines(cart', CallProduct) = OtherLines(cart, CallProduct)
            /\ op'[1] # "removeFromCart" =>
                  /\ Len(cart') = Len(cart)
                  /\ \A i \in DOMAIN cart : cart'[i].id = cart[i].id
            /\ ~HasLine(cart, CallProduct) => cart' = cart]_vars

\* applyDiscount has discounted the second of two lines and left the
\* first one as it was
C27_Witness ==
    /\ op = <<"applyDiscount", 1, 20>>
    /\ Len(cart) = 2
    /\ cart[1].id = 2
    /\ cart[1].discount = 0
    /\ cart[2].id = 1
    /\ cart[2].discount = 20

\* C28: every call of processPayment ends with isProcessing = false, on
\* the early returns (empty cart, short cash tender), where the flag is not
\* touched, and after the try block, where the finally block resets it; so
\* no render has the pay button disabled by isProcessing.
C28_ProcessingFlagReset ==
    /\ [](isProcessing = FALSE)
    /\ [][IsPay => (/\ isProcessing' = FALSE
                    /\ ~Succeeds => UNCHANGED isProcessing)]_vars

\* a call has returned early on a short cash tender and left the flag down
C28_Witness ==
    /\ op[1] = "processPayment"
    /\ op[2] = "cash"
    /\ toast.title = "Montant insuffisant"
    /\ cart # <<>>
    /\ isProcessing = FALSE

\* C23: after any sequence of openShift calls at most one shift of the
\* list has status 'open', and the ids of the shifts are pairwise distinct.
C23_AtMostOneOpenShift ==
    /\ Cardinality({i \in DOMAIN shifts : shifts[i].status = "open"}) <= 1
    /\ \A i, j \in DOMAIN shifts : shifts[i].id = shifts[j].id => i = j

\* the step is a call of setValue, or two of them in one handler
IsSetValue == op'[1] \in {"setValue", "setValueWith", "setValueTwice"}

\* C29: after every call of setValue the state of the hook is the value
\* that JSON.parse reads back from the item stored under the key, and
\* setValue(f) followed by setValue(g) from the same render leaves
\* g(f(v)), v being the state before, in the state and in the item.
C29_StateAndStorageCompose ==
    [][IsSetValue =>
         /\ localStorage' # NoItem
         /\ JSONparse(localStorage') = storedValue'
         /\ op'[1] = "setValueTwice" =>
               storedValue' = Apply(op'[3], Apply(op'[2], storedValue))]_vars

\* C30: with persistSelection, whenever the effects have run on the
\* selection as it is, a selection that is not empty is stored with exactly
\* the ids of the selected rows (in the state of the hook and in the item),
\* and an empty selection is stored as null; handleClearSelection stores
\* null itself, and so does the render of an empty selection; a render
\* whose stored selection is 24 hours old or older selects no row.
C30_PersistedSelectionTracks ==
    /\ []((pending \cap {"mount", "selection"} = {}) =>
            /\ JSONparse(localStorage) = storedValue
            /\ rowSelection # {} =>
                  /\ storedValue # Null
                  /\ storedValue.selectedIds = SelectedIds(rowSelection)
            /\ rowSelection = {} => storedValue = Null)
    /\ [][/\ (op'[1] = "handleClearSelection"
               \/ (op'[1] = "render" /\ rowSelection = {})) =>
                /\ storedValue' = Null
                /\ localStorage' = <<"null">>
          /\ (/\ op'[1] = "render"
              /\ storedValue # Null
              /\ clock - storedValue.timestamp >= Day) =>
                rowSelection' = rowSelection]_vars

\* the first render after a reload has found a selection of a day ago in
\* the item, has selected no row and has stored null
C30_Witness ==
    /\ op = <<"render", "expired">>
    /\ rowSelection = {}
    /\ storedValue = Null
    /\ localStorage = <<"null">>
    /\ clock >= Day

\* rounding of an amount in 1/10000 MAD, which is not negative, to
\* centimes, a half going away from zero
HalfAwayFromZero(raw) ==
    IF raw % 100 >= 50 THEN raw \div 100 + 1 ELSE raw \div 100

\* the cart of the example: three units at 8.90 (14 %), one at 11.50 (10 %)
ExampleCart ==
    << [id |-> 2, quantity |-> 3, discount |-> 0, stock |-> MaxStock],
       [id |-> 4, quantity |-> 1, discount |-> 0, stock |-> MaxStock] >>

\* C21: for the cart of every render, totalRounded is the total of the
\* cart (subtotal plus the VAT of the bands, none of them rounded) rounded
\* to two decimals, a half going away from zero, so that the two differ by
\* 0.005 at most; the net_a_payer of a receipt is its montant_ttc rounded
\* in that way; the cart of three units at 8.90 (14 %) and one at 11.50
\* (10 %) has subtotal 38.20, total 43.088 and totalRounded 43.09.
C21_RoundedHalfAwayFromZero ==
    /\ LET raw == cartTotals(cart).total
           rounded == cartTotalsFloat(cart).totalRounded
       IN /\ rounded = HalfAwayFromZero(raw)
          /\ rounded * 100 - raw <= 50
          /\ raw - rounded * 100 <= 50
    /\ currentReceipt # NoReceipt =>
          currentReceipt.total.net_a_payer
             = HalfAwayFromZero(currentReceipt.total.montant_ttc)
    /\ cartTotals(ExampleCart).subtotal = 382000
    /\ cartTotals(ExampleCart).total = 430880
    /\ cartTotalsFloat(ExampleCart).totalRounded = 4309

====
